---- MODULE Spec2Model ----
(***************************************************************************)
(* Model of src/src/index.ts: the "now playing" README updater.            *)
(*                                                                         *)
(* Text is modelled as a sequence of tokens.  A token is either a complete *)
(* markup tag, a "$" replacement pattern, the placeholder, or a run of     *)
(* plain text that holds none of these.  Two texts are byte-identical iff  *)
(* their token sequences are equal.                                        *)
(*                                                                         *)
(* Time is in milliseconds; the clock moves in steps of Step ms.           *)
(***************************************************************************)
EXTENDS Integers, Sequences, FiniteSets, TLC

VARIABLES
    pc,         \* position of main()/tick() (the await the loop is parked on)
    clock,      \* Date.now()
    startedAt,  \* main: startedAt of the running cycle
    wakeAt,     \* due time of the setTimeout armed by sleep(sleepMs)
    track,      \* tick: the TrackInfo returned by fetchRecentTrack
    cacheFile,  \* content of config.cacheFile on disk
    remote,     \* document host: bytes of the README at the branch head
    data,       \* updateReadme: the GET response kept for the PUT (sha, decoded)
    putReq,     \* updateReadme: the PUT request in flight (sha, content)
    outcome,    \* how the last tick() ended
    gets,       \* GET requests sent to the document host in this cycle
    puts,       \* PUT requests sent to the document host in this cycle
    hostSaid,   \* the document host's answer to the last PUT of this cycle
    saves,      \* writes of the cache file in this cycle
    lastWrite,  \* the last PUT this process had confirmed, while the
                \* document is still as that PUT left it
    lastPut     \* when the last PUT was confirmed and for which status, while
                \* every status fetched since equals it in the compared fields

vars == <<pc, clock, startedAt, wakeAt, track, cacheFile, remote, data,
          putReq, outcome, gets, puts, hostSaid, saves, lastWrite, lastPut>>

----------------------------------------------------------------------------
(* Bounds of the model *)

\* the clock stops after MaxSteps steps
MaxSteps == 4
\* the clock that moves in thirds of an interval stops after MaxFineSteps steps
MaxFineSteps == 10

(* Program constants *)

\* config.updateIntervalMs: the default (line 281)
updateIntervalMs == 30000
\* config.cacheTtlMs: the least value toNumber lets through (line 282)
cacheTtlMs == 60000
\* the clock moves in steps of one poll interval
Step == updateIntervalMs
\* for the timing of the loop the clock moves in thirds of the poll interval
FineStep == updateIntervalMs \div 3

----------------------------------------------------------------------------
(* Values *)

\* JavaScript's undefined, where a text may stand
UNDEF == <<"#undefined">>
\* the empty string
EMPTY == << >>
\* no object (null)
NULL == [kind |-> "null"]

\* JavaScript truthiness of an optional string
Truthy(v) == v # UNDEF /\ v # EMPTY

\* a ?? b
Coalesce(v, fallback) == IF v = UNDEF THEN fallback ELSE v

RECURSIVE Flatten(_)
\* concatenation of a sequence of texts
Flatten(ss) == IF ss = << >> THEN << >> ELSE Head(ss) \o Flatten(Tail(ss))

Max(a, b) == IF a > b THEN a ELSE b

----------------------------------------------------------------------------
(* Markup tokens *)

\* config.placeholder
Placeholder == "%music%"
\* the opening marker the placeholder branch writes
OpenTag == "<span data-music>"
\* an opening marker with more attributes, in upper case (the pattern has /i)
OpenTagAttr == "<SPAN id=\"np\" data-music>"
CloseTag == "</span>"
CloseTagUpper == "</SPAN>"

\* <span[^>]*data-music[^>]*> matches the token
IsOpen(t) == t \in {OpenTag, OpenTagAttr}
\* <\/span> matches the token
IsClose(t) == t \in {CloseTag, CloseTagUpper}

----------------------------------------------------------------------------
(* Snippet renderer *)

RECURSIVE Join(_, _)
\* Array.prototype.join: the lines with sep between them
Join(lines, sep) ==
    IF lines = << >> THEN << >>
    ELSE IF Len(lines) = 1 THEN Head(lines)
    ELSE Head(lines) \o <<sep>> \o Join(Tail(lines), sep)

\* a number in a template literal
Num(n) == <<ToString(n)>>

getTimeAgo(timestamp, now) ==
    LET seconds == (now - timestamp) \div 1000
    IN  IF seconds < 60 THEN <<"just now">>
        ELSE IF seconds < 3600 THEN Num(seconds \div 60) \o <<" minutes ago">>
        ELSE IF seconds < 86400 THEN Num(seconds \div 3600) \o <<" hours ago">>
        ELSE Num(seconds \div 86400) \o <<" days ago">>

formatTrack(t, now) ==
    LET timeAgo == getTimeAgo(t.playedAt, now)
        lines == << <<"<strong>">> \o t.title \o <<"</strong>">>,
                    <<"by ">> \o t.artist >>
                 \o (IF Truthy(t.album) THEN << <<"from ">> \o t.album >> ELSE << >>)
                 \o << EMPTY >>
                 \o (IF t.nowPlaying THEN << <<"<em>now playing</em>">> >>
                     ELSE << timeAgo >>)
        info == Join(lines, "<br/>")
    IN  IF Truthy(t.albumArt)
        THEN <<"<img src=\"">> \o t.albumArt
             \o <<"\" alt=\"\" width=\"128\" height=\"128\" align=\"left\" /><samp>">>
             \o info \o <<"</samp>">>
        ELSE <<"<samp><strong>">> \o t.title \o <<"</strong><br/>by ">>
             \o t.artist \o <<"</samp>">>

----------------------------------------------------------------------------
(* Status cache *)

\* new Date(ms).toISOString()
toISOString(ms) == <<"iso", ms>>

\* new Date(text).getTime(): NaN for a text that is no date
DateParse(text) ==
    IF Len(text) = 2 /\ text[1] = "iso"
    THEN [nan |-> FALSE, ms |-> text[2]]
    ELSE [nan |-> TRUE, ms |-> 0]

\* JSON.stringify of a CacheEntry: a property that is undefined is left out
JSONStringify(entry) ==
    LET kept == {k \in DOMAIN entry :
                    k \in {"album", "albumArt"} => entry[k] # UNDEF}
    IN  [kind |-> "json", val |-> [k \in kept |-> entry[k]]]

\* obj.k of a parsed object: undefined for a property it does not have
Get(obj, k) == IF k \in DOMAIN obj THEN obj[k] ELSE UNDEF

\* the CacheEntry saveCache builds
CacheEntryOf(t, now) ==
    [title |-> t.title, artist |-> t.artist, album |-> t.album,
     albumArt |-> t.albumArt, nowPlaying |-> t.nowPlaying,
     lastUpdatedIso |-> toISOString(now)]

\* the file saveCache leaves
saveCache(t, now) == JSONStringify(CacheEntryOf(t, now))

\* readFile and JSON.parse; any error (no file, malformed text) gives null
loadCache(file) == IF file.kind = "json" THEN file.val ELSE NULL

\* FieldsDiffer without the comparison of the album
FieldsDifferNoAlbum(t, cache) ==
    \/ Get(cache, "title") # t.title
    \/ Get(cache, "artist") # t.artist
    \/ Get(cache, "albumArt") # t.albumArt
    \/ "nowPlaying" \notin DOMAIN cache
    \/ cache.nowPlaying # t.nowPlaying

\* shouldUpdate, lines 246-254: one of the five compared fields differs
FieldsDiffer(t, cache) ==
    \/ Get(cache, "title") # t.title
    \/ Get(cache, "artist") # t.artist
    \/ Get(cache, "album") # t.album
    \/ Get(cache, "albumArt") # t.albumArt
    \/ "nowPlaying" \notin DOMAIN cache
    \/ cache.nowPlaying # t.nowPlaying

\* TtlExpired with >= for >
TtlExpiredGe(now, last) == now - last >= cacheTtlMs

\* shouldUpdate, line 261
TtlExpired(now, last) == now - last > cacheTtlMs

\* shouldUpdate answering false when there is no cache
shouldUpdateNoCache(t, cache, now) ==
    IF cache = NULL THEN FALSE
    ELSE IF FieldsDiffer(t, cache) THEN TRUE
    ELSE LET last == DateParse(Get(cache, "lastUpdatedIso"))
         IN  IF last.nan THEN TRUE
             ELSE TtlExpired(now, last.ms)

\* shouldUpdate without the test for a timestamp that is no date: the
\* comparison of line 261 with NaN is false
shouldUpdateNaNFalse(t, cache, now) ==
    IF cache = NULL THEN TRUE
    ELSE IF FieldsDiffer(t, cache) THEN TRUE
    ELSE LET last == DateParse(Get(cache, "lastUpdatedIso"))
         IN  IF last.nan THEN FALSE
             ELSE TtlExpired(now, last.ms)

shouldUpdate(t, cache, now) ==
    IF cache = NULL THEN TRUE
    ELSE IF FieldsDiffer(t, cache) THEN TRUE
    ELSE LET last == DateParse(Get(cache, "lastUpdatedIso"))
         IN  IF last.nan THEN TRUE
             ELSE TtlExpired(now, last.ms)

----------------------------------------------------------------------------
(* Document patcher: text operations *)

\* Buffer.from(bytes).toString("utf-8"): a byte that is no UTF-8 becomes U+FFFD
Utf8Decode(bytes) ==
    [i \in 1..Len(bytes) |-> IF bytes[i] = "\\xFF" THEN "\\uFFFD" ELSE bytes[i]]

\* Buffer.from(text, "utf-8"): the UTF-8 bytes of the text
Utf8Encode(text) == text

\* base64 as the document host sends and takes it
Base64Encode(bytes) == [base64 |-> bytes]
Base64Decode(content) == content.base64

\* the revision token of a document: the hash of its bytes
ShaOf(bytes) == [sha |-> bytes]

\* spanPattern can match from position i: an opening marker with a closing
\* tag somewhere after it
MatchesAt(d, i) ==
    IsOpen(d[i]) /\ \E j \in (i + 1)..Len(d) : IsClose(d[j])

\* spanPattern.test(decoded)
spanPatternTest(d) == \E i \in 1..Len(d) : MatchesAt(d, i)

\* the match is the leftmost one ...
MatchStart(d) ==
    CHOOSE i \in 1..Len(d) :
        MatchesAt(d, i) /\ \A k \in 1..(i - 1) : ~MatchesAt(d, k)

\* ... and [\s\S]*? stops at the first closing tag
MatchEnd(d) ==
    CHOOSE j \in (MatchStart(d) + 1)..Len(d) :
        IsClose(d[j]) /\ \A k \in (MatchStart(d) + 1)..(j - 1) : ~IsClose(d[k])

\* String.prototype.replace expands the "$" patterns of the replacement text:
\* $$ is a "$", $& the matched text, $n the n-th group when the pattern has it
GetSubstitution(template, matched, groups) ==
    LET Sub(t) ==
            IF t = "$$" THEN <<"$">>
            ELSE IF t = "$&" THEN matched
            ELSE IF t = "$1" /\ Len(groups) >= 1 THEN groups[1]
            ELSE IF t = "$2" /\ Len(groups) >= 2 THEN groups[2]
            ELSE <<t>>
    IN  Flatten([i \in 1..Len(template) |-> Sub(template[i])])

\* decoded.replace(spanPattern, `$1${formatted}$2`)
ReplaceSpan(d, formatted) ==
    LET s == MatchStart(d)
        e == MatchEnd(d)
    IN  SubSeq(d, 1, s - 1)
        \o GetSubstitution(<<"$1">> \o formatted \o <<"$2">>,
                           SubSeq(d, s, e), << <<d[s]>>, <<d[e]>> >>)
        \o SubSeq(d, e + 1, Len(d))

\* decoded.includes(config.placeholder)
Includes(d, tok) == \E i \in 1..Len(d) : d[i] = tok

\* decoded.replace(config.placeholder, replacement): the first occurrence only
ReplacePlaceholder(d, replacement) ==
    LET p == CHOOSE i \in 1..Len(d) :
                 d[i] = Placeholder /\ \A k \in 1..(i - 1) : d[k] # Placeholder
    IN  SubSeq(d, 1, p - 1)
        \o GetSubstitution(replacement, <<Placeholder>>, << >>)
        \o SubSeq(d, p + 1, Len(d))

\* nextReadmeOf with the placeholder looked for before the tagged region
nextReadmeOfPlaceholderFirst(decoded, formatted) ==
    IF Includes(decoded, Placeholder)
    THEN [zone |-> "placeholder",
          text |-> ReplacePlaceholder(decoded,
                       <<OpenTag>> \o formatted \o <<CloseTag>>)]
    ELSE IF spanPatternTest(decoded)
    THEN [zone |-> "span", text |-> ReplaceSpan(decoded, formatted)]
    ELSE [zone |-> "none", text |-> decoded]

\* nextReadmeOf with a region appended to a document that has no update zone
nextReadmeOfAppend(decoded, formatted) ==
    IF spanPatternTest(decoded)
    THEN [zone |-> "span", text |-> ReplaceSpan(decoded, formatted)]
    ELSE IF Includes(decoded, Placeholder)
    THEN [zone |-> "placeholder",
          text |-> ReplacePlaceholder(decoded,
                       <<OpenTag>> \o formatted \o <<CloseTag>>)]
    ELSE [zone |-> "placeholder",
          text |-> decoded \o <<OpenTag>> \o formatted \o <<CloseTag>>]

\* updateReadme, lines 139-153: nextReadme, or no update zone
nextReadmeOf(decoded, formatted) ==
    IF spanPatternTest(decoded)
    THEN [zone |-> "span", text |-> ReplaceSpan(decoded, formatted)]
    ELSE IF Includes(decoded, Placeholder)
    THEN [zone |-> "placeholder",
          text |-> ReplacePlaceholder(decoded,
                       <<OpenTag>> \o formatted \o <<CloseTag>>)]
    ELSE [zone |-> "none", text |-> decoded]

----------------------------------------------------------------------------
(* Status provider *)

\* the first truthy "#text" of the extralarge, large and medium images, or the
\* last one looked at
albumArtOf(recent) ==
    IF Truthy(recent.extralarge) THEN recent.extralarge
    ELSE IF Truthy(recent.large) THEN recent.large
    ELSE recent.medium

\* fetchRecentTrack, lines 101-116: the TrackInfo of a track record
TrackInfoOf(recent, now) ==
    [title |-> Coalesce(recent.name, <<"Unknown track">>),
     artist |-> Coalesce(recent.artist, <<"Unknown artist">>),
     album |-> recent.album,
     albumArt |-> albumArtOf(recent),
     nowPlaying |-> (recent.nowplaying = "true"),
     playedAt |-> IF recent.hasDate THEN recent.uts * 1000 ELSE now]

----------------------------------------------------------------------------
(* Inputs *)

\* a track record of the status provider: now playing, all fields present
BaseRecent ==
    [name |-> <<"Song A">>, artist |-> <<"Artist X">>, album |-> <<"LP">>,
     extralarge |-> <<"https://x/a.jpg">>, large |-> <<"https://x/l.jpg">>,
     medium |-> EMPTY, nowplaying |-> "true", hasDate |-> FALSE, uts |-> 0]

\* the track records the status provider answers with: the track now
\* playing; the same track played at time 0; a track without name, album
\* and extra-large image, by an artist with "$$" in the name; a track named
\* "</span>" that has no image
Recents ==
    { BaseRecent,
      [BaseRecent EXCEPT !.nowplaying = "", !.hasDate = TRUE],
      [BaseRecent EXCEPT !.name = UNDEF, !.artist = <<"Joey Bada", "$$">>,
                         !.album = UNDEF, !.extralarge = EMPTY],
      [BaseRecent EXCEPT !.name = <<CloseTag>>,
                         !.extralarge = EMPTY, !.large = EMPTY] }

\* the documents the repository holds at start or after an edit by someone else
DocRegion == <<"# hi ", OpenTagAttr, "old", CloseTagUpper, " bye">>
DocPlaceholder == <<"# hi ", Placeholder, " bye">>
DocNeither == <<"# hi ">>
DocBoth == <<Placeholder, OpenTag, Placeholder, CloseTag, Placeholder>>
DocBinary == <<"\\xFF", OpenTag, "old", CloseTag>>
Docs == {DocRegion, DocPlaceholder, DocNeither, DocBoth, DocBinary}

\* the cache files a start can find: none; a damaged one; one whose
\* timestamp is no date; one a run at time 0 left for the track now playing;
\* and that one with one of the five compared fields changed
InitCacheFiles ==
    LET e0 == CacheEntryOf(TrackInfoOf(BaseRecent, 0), 0)
    IN  { [kind |-> "enoent"],
          [kind |-> "malformed"],
          JSONStringify([e0 EXCEPT !.lastUpdatedIso = <<"yesterday">>]),
          JSONStringify(e0),
          JSONStringify([e0 EXCEPT !.title = <<"Song B">>]),
          JSONStringify([e0 EXCEPT !.artist = <<"Artist Y">>]),
          JSONStringify([e0 EXCEPT !.album = UNDEF]),
          JSONStringify([e0 EXCEPT !.albumArt = EMPTY]),
          JSONStringify([e0 EXCEPT !.nowPlaying = FALSE]) }

NoTrack == [kind |-> "null"]
NoData == [kind |-> "null"]
NoWrite == [zone |-> "none"]
NoPut == [kind |-> "null"]

\* the five fields of a TrackInfo that shouldUpdate compares (lines 246-254)
ComparedFields(t) ==
    [title |-> t.title, artist |-> t.artist, album |-> t.album,
     albumArt |-> t.albumArt, nowPlaying |-> t.nowPlaying]

----------------------------------------------------------------------------
(* The state machine *)

Init ==
    /\ pc = "loop"
    /\ clock = 0
    /\ startedAt = 0
    /\ wakeAt = 0
    /\ track = NoTrack
    /\ cacheFile \in InitCacheFiles
    /\ remote \in Docs
    /\ data = NoData
    /\ putReq = NoData
    /\ outcome = "none"
    /\ gets = 0
    /\ puts = 0
    /\ hostSaid = "none"
    /\ saves = 0
    /\ lastWrite = NoWrite
    /\ lastPut = NoPut

\* the variables of the world outside the process
world == <<clock, cacheFile, remote, lastWrite, lastPut>>
\* the locals of main
timing == <<startedAt, wakeAt>>
\* the locals of tick and updateReadme
locals == <<track, data, putReq>>
\* what the cycle has done so far
counts == <<gets, puts, hostSaid, saves>>

\* main, line 43: a cycle starts
Loop ==
    /\ pc = "loop"
    /\ pc' = "fetch"
    /\ startedAt' = clock
    /\ outcome' = "running"
    /\ UNCHANGED <<world, wakeAt, locals, counts>>

\* tick() is left: its locals and those of updateReadme are gone
Leave ==
    /\ track' = NoTrack
    /\ data' = NoData
    /\ putReq' = NoData

\* an error thrown inside tick() lands in main's catch
Throw(what) ==
    /\ pc' = "caught"
    /\ outcome' = what
    /\ Leave

\* tick() returns
Return(what) ==
    /\ pc' = "elapsed"
    /\ outcome' = what
    /\ Leave

\* fetchRecentTrack, lines 91-93: the status provider answers with an error
FetchFail ==
    /\ pc = "fetch"
    /\ Throw("fetchError")
    /\ UNCHANGED <<world, timing, counts>>

\* FetchNone with the missing track record thrown as an error
FetchNoneThrows ==
    /\ pc = "fetch"
    /\ Throw("notrack")
    /\ UNCHANGED <<world, timing, counts>>

\* fetchRecentTrack, lines 96-99, and tick, lines 59-62: no track record
FetchNone ==
    /\ pc = "fetch"
    /\ Return("notrack")
    /\ UNCHANGED <<world, timing, counts>>

\* fetchRecentTrack, lines 101-116: a track record
FetchTrack ==
    /\ pc = "fetch"
    /\ \E recent \in Recents : track' = TrackInfoOf(recent, clock)
    /\ lastPut' = IF lastPut # NoPut /\ lastPut.status = ComparedFields(track')
                  THEN lastPut ELSE NoPut
    /\ pc' = "load"
    /\ UNCHANGED <<clock, cacheFile, remote, lastWrite, timing, data, putReq,
                   outcome, counts>>

\* Decide with the GET sent before shouldUpdate is asked
DecideGetsFirst ==
    /\ pc = "load"
    /\ gets' = gets + 1
    /\ IF shouldUpdate(track, loadCache(cacheFile), clock)
       THEN /\ pc' = "get"
            /\ UNCHANGED <<outcome, locals>>
       ELSE Return("nochange")
    /\ UNCHANGED <<world, timing, puts, hostSaid, saves>>

\* tick, lines 64-70: the cache is read, shouldUpdate decides, and when it
\* says so updateReadme sends its GET
Decide ==
    /\ pc = "load"
    /\ IF shouldUpdate(track, loadCache(cacheFile), clock)
       THEN /\ pc' = "get"
            /\ gets' = gets + 1
            /\ UNCHANGED <<outcome, locals>>
       ELSE /\ Return("nochange")
            /\ gets' = gets
    /\ UNCHANGED <<world, timing, puts, hostSaid, saves>>

\* GetFail with the failed GET sent once more before the error is thrown
GetFailRetry ==
    /\ pc = "get"
    /\ \/ /\ gets < 2
          /\ gets' = gets + 1
          /\ UNCHANGED <<pc, outcome, locals>>
       \/ /\ Throw("getError")
          /\ gets' = gets
    /\ UNCHANGED <<world, timing, puts, hostSaid, saves>>

\* updateReadme, lines 128-135: the GET is answered with an error, or with
\* something that is no file or has no content, and the error is thrown
GetFail ==
    /\ pc = "get"
    /\ Throw("getError")
    /\ UNCHANGED <<world, timing, counts>>

\* PutSha with the token computed from the decoded text
PutShaRecomputed(d) == ShaOf(Utf8Encode(d.decoded))

\* the revision token updateReadme sends with its PUT (line 166)
PutSha(d) == d.sha

\* tickSaves without the test of line 71
tickSavesAlways(updated) == TRUE

\* tick, line 71: the cache is saved when updateReadme returned true
tickSaves(updated) == updated

\* Updated with the cache saved also when the document was found up to date
UpdatedRefreshing(updated, what) ==
    IF tickSaves(updated) \/ what = "uptodate"
    THEN /\ pc' = "save"
         /\ data' = NoData
         /\ putReq' = NoData
         /\ UNCHANGED <<outcome, track>>
    ELSE Return(what)

\* tick, lines 70-74: updateReadme has returned, its locals are gone
Updated(updated, what) ==
    IF tickSaves(updated)
    THEN /\ pc' = "save"
         /\ data' = NoData
         /\ putReq' = NoData
         /\ UNCHANGED <<outcome, track>>
    ELSE Return(what)

\* updateReadme, lines 132-169: the GET answers with the document; the new
\* document is computed and, unless there is nothing to write, the PUT is sent
GetOk ==
    /\ pc = "get"
    /\ remote # << >>
    /\ LET content == Base64Encode(remote)
           decoded == Utf8Decode(Base64Decode(content))
           formatted == formatTrack(track, clock)
           next == nextReadmeOf(decoded, formatted)
           got == [sha |-> ShaOf(remote), decoded |-> decoded,
                   formatted |-> formatted, zone |-> next.zone]
       IN  IF next.zone = "none"
           THEN Updated(FALSE, "notfound") /\ puts' = puts
           ELSE IF next.text = decoded
           THEN Updated(FALSE, "uptodate") /\ puts' = puts
           ELSE /\ data' = got
                /\ putReq' = [sha |-> PutSha(got),
                              content |-> Base64Encode(Utf8Encode(next.text))]
                /\ puts' = puts + 1
                /\ pc' = "put"
                /\ UNCHANGED <<outcome, track>>
    /\ UNCHANGED <<world, timing, gets, hostSaid, saves>>

\* the document host takes a PUT whose token is the document's
HostAccepts(req) == req.sha = ShaOf(remote)

\* updateReadme, lines 171-175: the document host confirms the PUT
PutOk ==
    /\ pc = "put"
    /\ HostAccepts(putReq)
    /\ remote' = Base64Decode(putReq.content)
    /\ hostSaid' = "ok"
    /\ lastWrite' = [zone |-> data.zone, formatted |-> data.formatted]
    /\ lastPut' = [at |-> clock, status |-> ComparedFields(track)]
    /\ Updated(TRUE, "unsaved")
    /\ UNCHANGED <<clock, cacheFile, timing, gets, puts, saves>>

\* PutFail with a stale token answered by a second PUT with the fresh token
PutFailRetry ==
    /\ pc = "put"
    /\ \/ /\ ~HostAccepts(putReq)
          /\ hostSaid' = "conflict"
          /\ putReq' = [putReq EXCEPT !.sha = ShaOf(remote)]
          /\ puts' = puts + 1
          /\ UNCHANGED <<pc, outcome, track, data>>
       \/ /\ hostSaid' = "failing"
          /\ Throw("putError")
          /\ puts' = puts
    /\ UNCHANGED <<world, timing, gets, saves>>

\* updateReadme, lines 171-173: the document host answers the PUT with an
\* error (the token is stale, or the host is failing) and the error is
\* thrown
PutFail ==
    /\ pc = "put"
    /\ \/ ~HostAccepts(putReq) /\ hostSaid' = "conflict"
       \/ hostSaid' = "failing"
    /\ Throw("putError")
    /\ UNCHANGED <<world, timing, gets, puts, saves>>

\* tick, lines 71-74, and saveCache: the cache file is written
SaveOk ==
    /\ pc = "save"
    /\ cacheFile' = saveCache(track, clock)
    /\ saves' = saves + 1
    /\ Return("updated")
    /\ UNCHANGED <<clock, remote, lastWrite, lastPut, timing, gets, puts,
                   hostSaid>>

\* saveCache, lines 229 and 238: mkdir or writeFile fails, nothing is written
SaveFail ==
    /\ pc = "save"
    /\ Throw("saveError")
    /\ UNCHANGED <<world, timing, counts>>

\* Catch with the error thrown again, out of main
CatchExit ==
    /\ pc = "caught"
    /\ pc' = "exit"
    /\ UNCHANGED <<world, timing, locals, outcome, counts>>

\* main, lines 46-49: the error is logged
Catch ==
    /\ pc = "caught"
    /\ pc' = "elapsed"
    /\ UNCHANGED <<world, timing, locals, outcome, counts>>

\* sleepMsOf without the execution time taken off
sleepMsOfFixed(elapsed) == updateIntervalMs

\* main, line 52
sleepMsOf(elapsed) == Max(0, updateIntervalMs - elapsed)

\* main, lines 51-53: the timer of the sleep is armed; the cycle is over
Sleep ==
    /\ pc = "elapsed"
    /\ wakeAt' = clock + sleepMsOf(clock - startedAt)
    /\ pc' = "sleep"
    /\ outcome' = "none"
    /\ gets' = 0
    /\ puts' = 0
    /\ hostSaid' = "none"
    /\ saves' = 0
    /\ UNCHANGED <<world, startedAt, locals>>

\* Wake without the wait for the timer: the sleep is not awaited
WakeEarly ==
    /\ pc = "sleep"
    /\ pc' = "loop"
    /\ UNCHANGED <<world, timing, locals, outcome, counts>>

\* sleep, lines 264-266: the timer fires and the loop goes round
Wake ==
    /\ pc = "sleep"
    /\ clock >= wakeAt
    /\ pc' = "loop"
    /\ UNCHANGED <<world, timing, locals, outcome, counts>>

\* time passes while the loop is parked on a network call or on the timer
\* (reading and writing the cache file take less than a step of the clock)
Tick ==
    /\ \/ pc \in {"fetch", "get", "put"}
       \/ pc = "sleep" /\ clock < wakeAt
    /\ clock + Step <= MaxSteps * Step
    /\ clock' = clock + Step
    /\ UNCHANGED <<pc, cacheFile, remote, lastWrite, lastPut, timing, locals,
                   outcome, counts>>

\* someone else commits to the document.  Between two cycles the edit has the
\* same effect whenever it lands, so it is taken during the sleep.  Inside a
\* cycle it matters between the GET and the PUT; the cycle reads nothing
\* after its PUT, so there two documents stand for all (two, so that an edit
\* can also be undone by the next)
ExternalEdit ==
    /\ \/ pc = "sleep" /\ remote' \in Docs
       \/ pc = "put" /\ remote' \in {DocNeither, DocRegion}
    /\ remote' # remote
    /\ lastWrite' = NoWrite
    /\ UNCHANGED <<pc, clock, cacheFile, lastPut, timing, locals, outcome,
                   counts>>

Next ==
    \/ Loop
    \/ FetchFail
    \/ FetchNone
    \/ FetchTrack
    \/ Decide
    \/ GetFail
    \/ GetOk
    \/ PutOk
    \/ PutFail
    \/ SaveOk
    \/ SaveFail
    \/ Catch
    \/ Sleep
    \/ Wake
    \/ Tick
    \/ ExternalEdit

Spec == Init /\ [][Next]_vars

\* The loop on a finer clock: a cycle can take a part of the interval, one
\* interval or more.  The run starts with no cache file and a document with
\* a tagged region, and nobody else commits to the document.
InitTiming ==
    /\ Init
    /\ cacheFile = [kind |-> "enoent"]
    /\ remote = DocRegion

\* time passes, a third of the interval at a time
TickFine ==
    /\ \/ pc \in {"fetch", "get", "put"}
       \/ pc = "sleep" /\ clock < wakeAt
    /\ clock + FineStep <= MaxFineSteps * FineStep
    /\ clock' = clock + FineStep
    /\ UNCHANGED <<pc, cacheFile, remote, lastWrite, lastPut, timing, locals,
                   outcome, counts>>

NextTiming ==
    \/ Loop
    \/ FetchFail
    \/ FetchNone
    \/ FetchTrack
    \/ Decide
    \/ GetFail
    \/ GetOk
    \/ PutOk
    \/ PutFail
    \/ SaveOk
    \/ SaveFail
    \/ Catch
    \/ Sleep
    \/ Wake
    \/ TickFine

SpecTiming == InitTiming /\ [][NextTiming]_vars

----------------------------------------------------------------------------
(* Properties *)

\* the outcomes of a tick() that threw
Errors == {"fetchError", "getError", "putError", "saveError"}
\* the outcomes of a tick() that returned without a confirmed PUT
NoWriteOutcomes == {"notrack", "nochange", "notfound", "uptodate"}
\* the values Date.now() takes
Times == {k * Step : k \in 0..MaxSteps}

\* C1: the cache file is written only in a cycle whose PUT the document host
\* has confirmed, by the step that ends this cycle as "updated"; a cycle that
\* ended in an error, in "no change" or in "no write occurred" has written
\* nothing.
C1_CacheOnlyAfterConfirmedPut ==
    [][ /\ (cacheFile' # cacheFile \/ saves' > saves)
            => /\ hostSaid = "ok" /\ gets = 1 /\ puts = 1
               /\ outcome' = "updated"
        /\ outcome \in Errors \cup NoWriteOutcomes => saves = 0 ]_vars

\* a cycle has written the cache after its confirmed PUT
C1_Witness ==
    /\ pc = "elapsed" /\ outcome = "updated"
    /\ hostSaid = "ok" /\ saves = 1
    /\ cacheFile.kind = "json"

\* C2: when the document host has rejected the PUT for its stale token, the
\* cycle is over with an error, the cache has not been written and no second
\* PUT has been sent.
C2_ConflictIsHardError ==
    hostSaid = "conflict"
        => /\ outcome = "putError"
           /\ pc \in {"caught", "elapsed"}
           /\ puts = 1
           /\ saves = 0

\* the document host has rejected a PUT for its stale token
C2_Witness ==
    /\ hostSaid = "conflict" /\ pc = "caught"
    /\ outcome = "putError" /\ saves = 0

\* C3: the PUT carries the token of the GET of the same call; the document a
\* confirmed PUT replaces is the one that GET returned; and a PUT sent for a
\* document that was changed since the GET is not confirmed and changes
\* nothing.
C3_PutCarriesTokenOfGet ==
    [][ /\ pc' = "put" => putReq'.sha = data'.sha
        /\ (hostSaid' = "ok" /\ hostSaid # "ok")
            => ShaOf(remote) = data.sha /\ Utf8Decode(remote) = data.decoded
        /\ (pc = "put" /\ pc' # "put" /\ ShaOf(remote) # data.sha)
            => hostSaid' \notin {"ok", "none"} /\ remote' = remote
               /\ pc' = "caught" ]_vars

\* an edit has landed between the GET and the PUT that is in flight
C3_Witness ==
    /\ pc = "put"
    /\ ShaOf(remote) # data.sha
    /\ putReq.sha = data.sha

\* C4: after a patch that wrote a document with a tagged region, the next
\* patch with the same rendered content, on the document as it was left,
\* sends no PUT.
C4_RoundTripNoOp ==
    (pc = "put" /\ lastWrite.zone = "span")
        => lastWrite.formatted # data.formatted

\* the first occurrence of the placeholder replaced by the markers around
\* the rendered content
C5_Upgraded(decoded, formatted) ==
    LET p == CHOOSE i \in 1..Len(decoded) :
                 decoded[i] = Placeholder
                 /\ \A k \in 1..(i - 1) : decoded[k] # Placeholder
    IN  SubSeq(decoded, 1, p - 1) \o <<OpenTag>> \o formatted \o <<CloseTag>>
        \o SubSeq(decoded, p + 1, Len(decoded))

\* C5: for a document with the placeholder and no tagged region, the patch
\* writes the document with the placeholder replaced by the markers around
\* the rendered content, and the next patch with the same rendered content
\* sends no PUT.
C5_PlaceholderUpgrade ==
    /\ (pc = "put" /\ data.zone = "placeholder")
        => Utf8Decode(Base64Decode(putReq.content))
               = C5_Upgraded(data.decoded, data.formatted)
    /\ (pc = "put" /\ lastWrite.zone = "placeholder")
        => lastWrite.formatted # data.formatted

\* the cache file holds what saveCache wrote for the track at time ts
C6_SavedAt(ts) == cacheFile = saveCache(track, ts)

\* C6: for a status equal to the cached record in the five compared fields,
\* with a timestamp that is a date, shouldUpdate answers false (the cycle
\* ends as "no change", no GET is sent) while the time since the timestamp
\* is at most the TTL, and true (the GET is sent) once it is more.
C6_IdempotenceWithExpiry ==
    [][ \A ts \in Times :
          (pc = "load" /\ pc' # "load" /\ C6_SavedAt(ts))
              => IF clock - ts > cacheTtlMs
                 THEN pc' = "get" /\ gets' = 1
                 ELSE pc' = "elapsed" /\ outcome' = "nochange" /\ gets' = 0
      ]_vars

\* shouldUpdate has answered true for an unchanged status whose cache
\* record is older than the TTL
C6_Witness ==
    /\ pc = "get" /\ gets = 1
    /\ \E ts \in Times : C6_SavedAt(ts) /\ clock - ts > cacheTtlMs

\* C7: with no cache file, shouldUpdate answers true for every status.
C7_NoCacheAlwaysUpdates ==
    [][ (pc = "load" /\ pc' # "load" /\ cacheFile.kind = "enoent")
            => pc' = "get" /\ gets' = 1 ]_vars

\* the first run has decided to update
C7_Witness ==
    /\ pc = "get" /\ gets = 1
    /\ cacheFile.kind = "enoent"

\* the cached record and the track differ in one of the five fields
C8_Differ ==
    /\ cacheFile.kind = "json"
    /\ \/ \E k \in {"title", "artist", "album", "albumArt"} :
             Get(cacheFile.val, k) # track[k]
       \/ cacheFile.val.nowPlaying # track.nowPlaying

\* the time since the timestamp of the cache record is at most the TTL
C8_WithinTtl ==
    \E ts \in Times :
        /\ cacheFile.val.lastUpdatedIso = toISOString(ts)
        /\ clock - ts <= cacheTtlMs

\* C8: for a status that differs from the cached record in one of title,
\* artist, album, artwork URL and live flag, shouldUpdate answers true,
\* whatever the timestamp of the record.
C8_ContentChangeWins ==
    [][ (pc = "load" /\ pc' # "load" /\ C8_Differ)
            => pc' = "get" /\ gets' = 1 ]_vars

\* shouldUpdate has answered true for a changed status within the TTL
C8_Witness ==
    /\ pc = "get" /\ gets = 1
    /\ C8_Differ
    /\ C8_WithinTtl

\* C9: a cycle in which the status provider had no track record ends
\* without a GET, a PUT or a write of the cache, and without an error.
C9_NoTrackNoRequests ==
    outcome = "notrack"
        => /\ gets = 0 /\ puts = 0 /\ saves = 0 /\ hostSaid = "none"
           /\ pc = "elapsed"

\* tick() has returned for want of a track record
C9_Witness ==
    /\ outcome = "notrack" /\ pc = "elapsed"
    /\ gets = 0 /\ saves = 0

\* C10: an error thrown by any step of a cycle lands in the catch of main;
\* from there the loop computes its usual sleep, arms the timer, and when the
\* timer has fired starts the next cycle.  The loop has no other way out.
C10_FailureIsolation ==
    [][ /\ (outcome' \in Errors /\ outcome \notin Errors) => pc' = "caught"
        /\ pc = "caught" => pc' = "elapsed" /\ outcome' = outcome
        /\ pc = "elapsed"
            => /\ pc' = "sleep"
               /\ wakeAt' = clock + Max(0, updateIntervalMs - (clock - startedAt))
        /\ (pc = "sleep" /\ pc' # "sleep") => pc' = "loop" /\ clock >= wakeAt
        /\ pc = "loop" => pc' = "fetch" /\ startedAt' = clock
        /\ pc' \in {"loop", "fetch", "load", "get", "put", "save", "caught",
                    "elapsed", "sleep"} ]_vars

\* the write of the cache has failed, and the loop is on its way to the sleep
C10_Witness ==
    /\ pc = "elapsed"
    /\ outcome = "saveError"

\* C11: one cycle at a time.  A status fetch begins only from the head of the
\* loop, when the cycle before it is over: its tick() has been left (no
\* track, no GET answer and no PUT are held any more), its outcome has been
\* taken by the sleep, and the timer of that sleep has fired.  A GET answer
\* or a PUT is held only while the PUT is awaited, a track only inside tick().
C11_OneCycleAtATime ==
    [][ /\ (pc' = "fetch" /\ pc # "fetch")
            => /\ pc = "loop"
               /\ track = NoTrack /\ data = NoData /\ putReq = NoData
               /\ outcome = "none"
               /\ clock >= wakeAt
               /\ startedAt' = clock
        /\ (data # NoData \/ putReq # NoData) => pc = "put"
        /\ track # NoTrack => pc \in {"load", "get", "put", "save"} ]_vars

\* a second cycle has begun, after the sleep of the first
C11_Witness ==
    /\ pc = "fetch"
    /\ wakeAt > 0
    /\ startedAt >= wakeAt

\* C12: of two PUTs confirmed one after the other, with every status fetched
\* between them (that of the second PUT too) equal in the five compared
\* fields to the status of the first, the second is confirmed more than the
\* TTL after the first.
C12_TtlSpacesWrites ==
    [][ (hostSaid' = "ok" /\ hostSaid # "ok" /\ lastPut # NoPut)
            => clock - lastPut.at > cacheTtlMs ]_vars

\* the cache file holds a record equal to the track in the five compared
\* fields, with a timestamp that is no date
C13_EqualButNoDate ==
    /\ cacheFile.kind = "json"
    /\ \A k \in {"title", "artist", "album", "albumArt"} :
           Get(cacheFile.val, k) = track[k]
    /\ cacheFile.val.nowPlaying = track.nowPlaying
    /\ cacheFile.val.lastUpdatedIso[1] # "iso"

\* C13: when the content of the cache file is malformed, or its record
\* equals the status in the five compared fields and has a timestamp that is
\* no date, the cycle goes on without an error and shouldUpdate answers
\* true: the GET is sent.
C13_CorruptCacheIsAbsent ==
    [][ (/\ pc = "load" /\ pc' # "load"
         /\ (cacheFile.kind = "malformed" \/ C13_EqualButNoDate))
            => pc' = "get" /\ gets' = 1 /\ outcome' = "running" ]_vars

\* shouldUpdate has answered true for an unchanged status whose cache record
\* has a timestamp that is no date
C13_Witness ==
    /\ pc = "get" /\ gets = 1 /\ outcome = "running"
    /\ C13_EqualButNoDate

\* C14: the sleep armed after a cycle is max(0, interval - execution time),
\* never negative: the timer is due one interval after the start of the
\* cycle when the cycle took at most the interval, and at once when it took
\* longer.  The loop leaves the sleep when the timer is due, and the next
\* cycle then starts, at that time.
C14_CycleTiming ==
    [][ /\ pc = "elapsed"
            => /\ pc' = "sleep"
               /\ wakeAt' - clock = Max(0, updateIntervalMs - (clock - startedAt))
               /\ wakeAt' - clock >= 0
               /\ wakeAt' = IF clock - startedAt <= updateIntervalMs
                             THEN startedAt + updateIntervalMs
                             ELSE clock
        /\ (pc = "sleep" /\ pc' # "sleep") => pc' = "loop" /\ clock = wakeAt
        /\ (pc = "loop" /\ wakeAt > startedAt)
            => pc' = "fetch" /\ startedAt' = wakeAt ]_vars

\* a cycle that took a part of the interval has slept the rest of it, the
\* next one took longer than the interval, and the loop is at its head
\* again with no time slept
C14_Witness ==
    /\ pc = "loop"
    /\ startedAt = updateIntervalMs
    /\ wakeAt > startedAt + updateIntervalMs
    /\ wakeAt < startedAt + 2 * updateIntervalMs
    /\ clock = wakeAt

\* the document at the host has neither a tagged region nor the placeholder
C15_NoZone ==
    LET d == Utf8Decode(remote)
    IN  /\ \A i \in 1..Len(d) :
               IsOpen(d[i]) => \A j \in (i + 1)..Len(d) : ~IsClose(d[j])
        /\ \A i \in 1..Len(d) : d[i] # Placeholder

\* C15: when the GET returns a document with neither a tagged region nor the
\* placeholder, updateReadme returns false: tick() returns without an error,
\* no PUT is sent and the cache file and the document are as they were.
\* While the document is such a one, no step sends a PUT or writes the cache
\* file, and only a commit of someone else changes the document: a
\* following cycle finds it as it was and ends the same way.
C15_NoZoneNoWrite ==
    [][ /\ (pc = "get" /\ pc' \notin {"get", "caught"} /\ C15_NoZone)
            => /\ outcome' = "notfound" /\ pc' = "elapsed"
               /\ puts' = 0 /\ saves' = 0
               /\ cacheFile' = cacheFile /\ remote' = remote
        /\ C15_NoZone
            => /\ puts' <= puts /\ saves' <= saves
               /\ cacheFile' = cacheFile
               /\ remote' # remote => pc' = pc /\ pc \in {"sleep", "put"} ]_vars

\* a cycle after the first has found no update zone in the document, and no
\* cycle has written the cache so far
C15_Witness ==
    /\ pc = "elapsed" /\ outcome = "notfound"
    /\ startedAt > 0
    /\ C15_NoZone
    /\ gets = 1 /\ puts = 0
    /\ cacheFile.kind = "enoent"

\* the document with the text between the markers of its first tagged region
\* replaced by the rendered content, and nothing else changed
C16_Patched(decoded, formatted) ==
    LET s == CHOOSE i \in 1..Len(decoded) :
                 /\ IsOpen(decoded[i])
                 /\ \E j \in (i + 1)..Len(decoded) : IsClose(decoded[j])
                 /\ \A k \in 1..(i - 1) :
                        IsOpen(decoded[k])
                            => \A j \in (k + 1)..Len(decoded) : ~IsClose(decoded[j])
        e == CHOOSE j \in (s + 1)..Len(decoded) :
                 /\ IsClose(decoded[j])
                 /\ \A k \in (s + 1)..(j - 1) : ~IsClose(decoded[k])
    IN  SubSeq(decoded, 1, s) \o formatted \o SubSeq(decoded, e, Len(decoded))

\* C16: for a document with a tagged region, the document the PUT carries is
\* the fetched one with the text between the markers of the region replaced
\* by exactly the rendered content: the markers and the text before and
\* after the region are as they were.
C16_OnlyRegionChanges ==
    (pc = "put" /\ data.zone = "span")
        => Utf8Decode(Base64Decode(putReq.content))
               = C16_Patched(data.decoded, data.formatted)

\* C17: when the GET of the document fails (the answer is an error, or is
\* no file, or has no content), tick() throws at once: no second GET and no
\* PUT is sent in the cycle, and the cache file and the document are as they
\* were.
C17_GetFailureEndsCycle ==
    [][ /\ (pc = "get" /\ outcome' = "getError")
            => /\ pc' = "caught"
               /\ gets' = gets /\ puts' = puts /\ saves' = saves
               /\ cacheFile' = cacheFile /\ remote' = remote
        /\ pc = "get" => gets' = gets
        /\ outcome = "getError"
            => /\ pc \in {"caught", "elapsed"}
               /\ gets = 1 /\ puts = 0 /\ saves = 0 /\ hostSaid = "none"
               /\ cacheFile' = cacheFile ]_vars

\* a cycle has ended with the error of its GET
C17_Witness ==
    /\ pc = "elapsed" /\ outcome = "getError"
    /\ gets = 1 /\ puts = 0 /\ saves = 0

\* the fetched document has a tagged region and the placeholder
C18_Both ==
    /\ spanPatternTest(data.decoded)
    /\ Includes(data.decoded, Placeholder)

\* the number of occurrences of the placeholder in a text
C18_Count(d) == Cardinality({i \in 1..Len(d) : d[i] = Placeholder})

\* C18 as stated: for a document with a tagged region and the placeholder,
\* the patch goes to the tagged region and every occurrence of the
\* placeholder is in the patched document as it was in the fetched one.
C18_PlaceholdersUntouched ==
    (pc = "put" /\ C18_Both)
        => /\ data.zone = "span"
           /\ C18_Count(Utf8Decode(Base64Decode(putReq.content)))
                  = C18_Count(data.decoded)

\* C18, amended: for a document with a tagged region and the placeholder,
\* the patch goes to the tagged region, and the text up to the opening
\* marker and from the closing marker on is as it was: every occurrence of
\* the placeholder outside the region is untouched (one between the markers
\* goes with the old content of the region).
C18_RegionBeforePlaceholder ==
    (pc = "put" /\ C18_Both)
        => LET old == data.decoded
               new == Utf8Decode(Base64Decode(putReq.content))
               s == MatchStart(old)
               e == MatchEnd(old)
               grown == Len(new) - Len(old)
           IN  /\ data.zone = "span"
               /\ Len(new) >= s + 1 + Len(old) - e
               /\ SubSeq(new, 1, s) = SubSeq(old, 1, s)
               /\ SubSeq(new, e + grown, Len(new)) = SubSeq(old, e, Len(old))
               /\ \A i \in 1..Len(old) :
                      (old[i] = Placeholder /\ (i < s \/ i > e))
                          => new[IF i < s THEN i ELSE i + grown] = Placeholder

\* a PUT is in flight for a document that has a tagged region, a placeholder
\* before it, one inside it and one after it
C18_Witness ==
    /\ pc = "put"
    /\ C18_Both
    /\ data.zone = "span"
    /\ data.decoded = Utf8Decode(DocBoth)
    /\ C18_Count(Utf8Decode(Base64Decode(putReq.content))) = 2

\* the cache file holds a record equal to the track in the five compared
\* fields, written at most the TTL ago: shouldUpdate answers false
C19_CacheFresh ==
    /\ cacheFile.kind = "json"
    /\ \A k \in {"title", "artist", "album", "albumArt"} :
           Get(cacheFile.val, k) = track[k]
    /\ cacheFile.val.nowPlaying = track.nowPlaying
    /\ \E ts \in Times :
           /\ cacheFile.val.lastUpdatedIso = toISOString(ts)
           /\ clock - ts <= cacheTtlMs

\* C19: a cycle in which shouldUpdate answers false ends as "no change" with
\* no GET and no PUT sent and the cache file as it was.  A GET is sent only
\* by the decision step, for a fetched track for which shouldUpdate answers
\* true; a PUT only after the GET of the cycle; and a cycle sends at most
\* one GET and at most one PUT.
C19_QuietWhenNoUpdate ==
    [][ /\ gets <= 1 /\ puts <= 1 /\ puts <= gets
        /\ outcome = "nochange"
            => gets = 0 /\ puts = 0 /\ saves = 0 /\ hostSaid = "none"
        /\ (pc = "load" /\ pc' # "load" /\ C19_CacheFresh)
            => /\ outcome' = "nochange" /\ pc' = "elapsed"
               /\ gets' = 0 /\ puts' = 0
               /\ cacheFile' = cacheFile /\ remote' = remote
        /\ outcome' = "nochange" => cacheFile' = cacheFile /\ gets' = 0
        /\ gets' > gets
            => /\ pc = "load" /\ pc' = "get"
               /\ track # NoTrack
               /\ ~C19_CacheFresh
        /\ puts' > puts => pc = "get" /\ gets = 1 /\ pc' = "put" ]_vars

\* a cycle has ended as "no change" with no request to the document host
C19_Witness ==
    /\ pc = "elapsed" /\ outcome = "nochange"
    /\ gets = 0 /\ puts = 0
    /\ cacheFile.kind = "json"

\* the status the record in the cache file was saved for
C20_Status ==
    [title |-> cacheFile.val.title, artist |-> cacheFile.val.artist,
     album |-> Get(cacheFile.val, "album"),
     albumArt |-> Get(cacheFile.val, "albumArt"),
     nowPlaying |-> cacheFile.val.nowPlaying, playedAt |-> 0]

\* the cache record is of a now-playing status and older than the TTL, and
\* the document holds the rendering of that status: patching it gives the
\* same text
C20_Settled ==
    /\ cacheFile.kind = "json"
    /\ cacheFile.val.nowPlaying
    /\ \E ts \in Times :
           /\ cacheFile.val.lastUpdatedIso = toISOString(ts)
           /\ clock - ts > cacheTtlMs
    /\ LET d == Utf8Decode(remote)
           n == nextReadmeOf(d, formatTrack(C20_Status, clock))
       IN  n.zone # "none" /\ n.text = d

\* the track of the cycle equals the cached status in the compared fields
C20_SameStatus ==
    /\ track # NoTrack
    /\ cacheFile.kind = "json"
    /\ ComparedFields(track) = ComparedFields(C20_Status)

\* C20: a cycle whose patch finds the document byte-identical returns with
\* no PUT and leaves the cache file, so also its timestamp, as it was.  Once
\* the TTL has run out for a now-playing status whose rendering the document
\* holds, this stays so until the document is changed or the cache is
\* written, and every cycle that fetches this status sends the GET and,
\* when the GET is answered, ends as "up to date" with no PUT.  (That it
\* stays so is the last conjunct: outside the save the cache file is not
\* written, the clock does not go back, and the rendering of a now-playing
\* status is the same at every time.)
C20_StaleTimestampPollsForever ==
    [][ /\ (pc = "get" /\ outcome' = "uptodate")
            => /\ pc' = "elapsed"
               /\ puts' = 0 /\ saves' = 0
               /\ cacheFile' = cacheFile /\ remote' = remote
        /\ (pc = "load" /\ pc' # "load" /\ C20_SameStatus /\ C20_Settled)
            => pc' = "get" /\ gets' = 1
        /\ (pc = "get" /\ pc' \notin {"get", "caught"}
                /\ C20_SameStatus /\ C20_Settled)
            => outcome' = "uptodate" /\ puts' = 0
        /\ (pc # "save" /\ cacheFile.kind = "json" /\ cacheFile.val.nowPlaying)
            => /\ cacheFile' = cacheFile
               /\ clock' >= clock
               /\ formatTrack(C20_Status, clock')
                      = formatTrack(C20_Status, clock) ]_vars

\* a cycle that began more than an interval after the TTL had run out has
\* sent its GET and found the document up to date
C20_Witness ==
    /\ pc = "elapsed" /\ outcome = "uptodate"
    /\ gets = 1 /\ puts = 0 /\ saves = 0
    /\ C20_Settled
    /\ \E ts \in Times :
           /\ cacheFile.val.lastUpdatedIso = toISOString(ts)
           /\ startedAt - ts > cacheTtlMs + updateIntervalMs

====
